---- MODULE Spec2Model ----
(***************************************************************************)
(* A model of pkg/resource/resource.go: the resource record with its       *)
(* assign-once id and URN, its shallow clone, and the recursive cloner     *)
(* that turns a runtime object graph into a property map.                  *)
(***************************************************************************)
EXTENDS Integers, Sequences, FiniteSets, TLC

VARIABLES
    heap,      \* runtime object graph: object identity -> rt.Object
    ctx,       \* Context.ObjURN: object identity -> URN
    made,      \* outcome of NewObjectResource, or NoCall
    stack,     \* active cloneObjectProperty calls of the stepwise walk
    walk,      \* the stepwise walk: its root and whether it runs, is done or failed
    rs,        \* the resource records: index -> resource struct
    maps,      \* the Go maps behind PropertyMap values: reference -> key -> value
    last,      \* the last operation on a resource and its outcome, or NoCall
    called,    \* the (resource, field) pairs SetID / SetURN was called on so far
    nops       \* the number of operations on resources so far

cloneVars == <<heap, ctx, made>>
walkVars == <<stack, walk>>
resVars == <<rs, maps, last, called, nops>>
vars == <<heap, ctx, made, stack, walk, rs, maps, last, called, nops>>

(***************************************************************************)
(* Bounds of the model.                                                    *)
(***************************************************************************)
MaxArrayLen == 3
MaxSources == 2
MaxResources == 2
MaxOps == 4
MaxDepth == 6

NoCall == [st |-> "none"]

(***************************************************************************)
(* Runtime objects (rt.Object as read by the cloner).  "kind" is the       *)
(* declared type: a resource class, a primitive, an object literal, a      *)
(* dynamic, an array, a map, a class instance, a function, a computed      *)
(* wrapper (whose eventual type is "future"), or a pointer, which stands   *)
(* for every type the cloner does not recognise.                           *)
(***************************************************************************)
\* Object identities: two resources, R and C, and four values reachable from
\* R, the last of them a function.
Resources == {"R", "C"}
Values == {"V1", "V2", "V3", "F"}
Objs == Resources \cup Values

NoProps == [k \in {} |-> ""]

Obj(kind, b, n, s, props, elems, future, expr, sources) ==
    [kind |-> kind, b |-> b, n |-> n, s |-> s, props |-> props, elems |-> elems,
     future |-> future, expr |-> expr, sources |-> sources]

Leaf(kind) == Obj(kind, FALSE, 0, "", NoProps, <<>>, "none", FALSE, <<>>)
BoolObj(b) == Obj("bool", b, 0, "", NoProps, <<>>, "none", FALSE, <<>>)
NumberObj(n) == Obj("number", FALSE, n, "", NoProps, <<>>, "none", FALSE, <<>>)
StringObj(s) == Obj("string", FALSE, 0, s, NoProps, <<>>, "none", FALSE, <<>>)
PropsObj(kind, props) == Obj(kind, FALSE, 0, "", props, <<>>, "none", FALSE, <<>>)
ArrayObj(elems) == Obj("array", FALSE, 0, "", NoProps, elems, "none", FALSE, <<>>)
ComputedObj(future, expr, sources) ==
    Obj("computed", FALSE, 0, "", NoProps, <<>>, future, expr, sources)

ObjectKinds == {"object", "dynamic", "map", "class"}
FutureKinds == {"null", "bool", "number", "string", "object", "dynamic", "array",
                "map", "class", "function"}

SeqsUpTo(S, n) == UNION {[1..m -> S] : m \in 0..n}

\* The scalar, function and unrecognised values.
LeafObjs ==
    {Leaf("null"), Leaf("function"), Leaf("pointer"), StringObj("a")}
        \cup {BoolObj(b) : b \in BOOLEAN} \cup {NumberObj(n) : n \in {1, 3}}

\* Every computed value: any eventual type, plain attribute or expression,
\* blocked on any sequence of resources.
ComputedObjs ==
    {ComputedObj(f, e, ss) :
        f \in FutureKinds, e \in BOOLEAN, ss \in SeqsUpTo(Resources, MaxSources)}

(***************************************************************************)
(* Property values (PropertyValue) and their constructors.                 *)
(***************************************************************************)
NewNullProperty == [k |-> "Null"]
NewBoolProperty(b) == [k |-> "Bool", b |-> b]
NewNumberProperty(n) == [k |-> "Number", n |-> n]
NewStringProperty(s) == [k |-> "String", s |-> s]
NewArrayProperty(elems) == [k |-> "Array", elems |-> elems]
NewObjectProperty(props) == [k |-> "Object", props |-> props]
NewResourceProperty(urn) == [k |-> "Resource", urn |-> urn]
MakeComputed(v, urns) == [k |-> "Computed", elem |-> v, urns |-> urns]
MakeOutput(v) == [k |-> "Output", elem |-> v]

\* What a call returns: a value, "skip" (the ok = false return), or a fatal
\* contract failure, which unwinds every caller.
Ok(v) == [st |-> "ok", v |-> v]
Skip == [st |-> "skip"]
Fatal(why) == [st |-> "fatal", why |-> why]

\* rt.PropertyMap.Stable: the keys in their fixed order.
KeyOrder == <<"a", "b", "c", "x", "y", "z">>
Stable(props) == SelectSeq(KeyOrder, LAMBDA k : k \in DOMAIN props)

IsResourceType(kind) == kind = "resource"

(***************************************************************************)
(* The cloner.                                                             *)
(***************************************************************************)
\* outprop without the test of comp.Expr.
outpropOfExpression(comp, resobj) ==
    Len(comp.sources) = 1 /\ comp.sources[1] = resobj

\* Line 236: a computed value is an output property of resobj.
outprop(comp, resobj) ==
    ~comp.expr /\ Len(comp.sources) = 1 /\ comp.sources[1] = resobj

\* Lines 245-254: the URNs of the sources that are not resobj, in order;
\* fatal at the first of them the context does not hold.
RECURSIVE sourceURNs(_, _, _, _)

\* sourceURNs without the src != resobj test: the owner is looked up too.
sourceURNsWithOwner(c, resobj, sources, i) ==
    IF i > Len(sources) THEN Ok(<<>>)
    ELSE IF sources[i] \notin DOMAIN c THEN Fatal("missing")
    ELSE LET rest == sourceURNs(c, resobj, sources, i + 1)
         IN  IF rest.st = "fatal" THEN rest ELSE Ok(<<c[sources[i]]>> \o rest.v)

sourceURNs(c, resobj, sources, i) ==
    IF i > Len(sources) THEN Ok(<<>>)
    ELSE IF sources[i] = resobj THEN sourceURNs(c, resobj, sources, i + 1)
    ELSE IF sources[i] \notin DOMAIN c THEN Fatal("missing")
    ELSE LET rest == sourceURNs(c, resobj, sources, i + 1)
         IN  IF rest.st = "fatal" THEN rest ELSE Ok(<<c[sources[i]]>> \o rest.v)

\* Lines 237-258: the wrapper chosen for the placeholder.
makeProperty(c, resobj, comp) ==
    IF outprop(comp, resobj) THEN Ok([out |-> TRUE, urns |-> <<>>])
    ELSE LET u == sourceURNs(c, resobj, comp.sources, 1)
         IN  IF u.st = "fatal" THEN u ELSE Ok([out |-> FALSE, urns |-> u.v])

wrap(mk, v) == IF mk.out THEN MakeOutput(v) ELSE MakeComputed(v, mk.urns)

\* Lines 260-278: the placeholder of the eventual type; Skip when no case
\* of the two switches matches and control falls out of the if.
futureProperty(future) ==
    CASE future = "null" -> Ok(NewNullProperty)
      [] future = "bool" -> Ok(NewBoolProperty(FALSE))
      [] future = "number" -> Ok(NewNumberProperty(0))
      [] future = "string" -> Ok(NewStringProperty(""))
      [] future \in {"object", "dynamic"} -> Ok(NewObjectProperty(NoProps))
      [] future = "array" -> Ok(NewArrayProperty(<<>>))
      [] future = "class" -> Ok(NewObjectProperty(NoProps))
      [] OTHER -> Skip

\* Line 214: the owner handed to the clone of an array element.
elementOwner(resobj, obj) == obj

\* cloneReference without the assertion: a missing entry reads as the blank URN.
cloneReferenceUnchecked(c, obj) ==
    IF obj \in DOMAIN c THEN Ok(NewResourceProperty(c[obj])) ELSE Ok(NewResourceProperty(""))

\* appendElement without the ok test: the zero PropertyValue stands in for a
\* skipped element.
appendElementAlways(r, rest) ==
    IF r.st = "ok" THEN <<r.v>> \o rest ELSE <<NewNullProperty>> \o rest

\* storeProperty without the ok test: the zero PropertyValue is stored under
\* the key of a skipped value.
storePropertyAlways(key, r, rest) ==
    [k \in DOMAIN rest \cup {key} |->
        IF k = key THEN (IF r.st = "ok" THEN r.v ELSE NewNullProperty) ELSE rest[k]]

\* Lines 186-191: a resource is serialized as its URN, looked up in the context.
cloneReference(c, obj) ==
    IF obj \in DOMAIN c THEN Ok(NewResourceProperty(c[obj])) ELSE Fatal("missing")

\* Lines 214-216: an element is appended when its clone is ok.
appendElement(r, rest) == IF r.st = "ok" THEN <<r.v>> \o rest ELSE rest

\* Lines 292-294: a key is stored when the clone of its value is ok.
storeProperty(key, r, rest) ==
    IF r.st = "ok"
    THEN [k \in DOMAIN rest \cup {key} |-> IF k = key THEN r.v ELSE rest[k]]
    ELSE rest

RECURSIVE cloneObjectProperty(_, _, _)
RECURSIVE cloneObjectProperties(_, _, _)
RECURSIVE cloneElements(_, _, _, _)
RECURSIVE cloneKeys(_, _, _, _, _)

\* Lines 213-217: the loop over an array's elements.
cloneElements(c, owner, elems, i) ==
    IF i > Len(elems) THEN Ok(<<>>)
    ELSE LET r == cloneObjectProperty(c, owner, elems[i])
         IN  IF r.st = "fatal" THEN r
             ELSE LET rest == cloneElements(c, owner, elems, i + 1)
                  IN  IF rest.st = "fatal" THEN rest
                      ELSE Ok(appendElement(r, rest.v))

\* Lines 291-295: the loop over a property map's keys in stable order.
cloneKeys(c, resobj, props, keys, i) ==
    IF i > Len(keys) THEN Ok(NoProps)
    ELSE LET r == cloneObjectProperty(c, resobj, props[keys[i]])
         IN  IF r.st = "fatal" THEN r
             ELSE LET rest == cloneKeys(c, resobj, props, keys, i + 1)
                  IN  IF rest.st = "fatal" THEN rest
                      ELSE Ok(storeProperty(keys[i], r, rest.v))

cloneObjectProperties(c, resobj, props) ==
    cloneKeys(c, resobj, props, Stable(props), 1)

cloneObject(c, resobj, obj) == cloneObjectProperties(c, resobj, heap[obj].props)

\* Lines 231-279: a computed value.
cloneComputed(c, resobj, o) ==
    LET mk == makeProperty(c, resobj, o)
    IN  IF mk.st = "fatal" THEN mk
        ELSE LET f == futureProperty(o.future)
             IN  IF f.st = "ok" THEN Ok(wrap(mk.v, f.v)) ELSE Skip

\* Wraps a cloned property map as an object property.
objectResult(r) == IF r.st = "fatal" THEN r ELSE Ok(NewObjectProperty(r.v))

cloneObjectProperty(c, resobj, obj) ==
    LET o == heap[obj]
        t == o.kind
    IN  IF IsResourceType(t)
        THEN cloneReference(c, obj)
        ELSE CASE t = "null" -> Ok(NewNullProperty)
               [] t = "bool" -> Ok(NewBoolProperty(o.b))
               [] t = "number" -> Ok(NewNumberProperty(o.n))
               [] t = "string" -> Ok(NewStringProperty(o.s))
               [] t \in {"object", "dynamic"} -> objectResult(cloneObject(c, resobj, obj))
               [] t = "array" ->
                    LET r == cloneElements(c, elementOwner(resobj, obj), o.elems, 1)
                    IN  IF r.st = "fatal" THEN r ELSE Ok(NewArrayProperty(r.v))
               [] t = "map" -> objectResult(cloneObjectProperties(c, resobj, o.props))
               [] t = "class" -> objectResult(cloneObject(c, resobj, obj))
               [] OTHER ->
                    LET r == IF t = "computed" THEN cloneComputed(c, resobj, o) ELSE Skip
                    IN  IF r.st # "skip" THEN r
                        ELSE IF t = "function" THEN Skip ELSE Fatal("unrecognized")

cloneResource(c, resobj) == cloneObject(c, resobj, resobj)

(***************************************************************************)
(* NewObjectResource: the resource made out of a runtime object.  The      *)
(* property maps of the result are held by value here: nothing mutates     *)
(* them in this specification.                                             *)
(***************************************************************************)
TypeToken(obj) == IF obj = "R" THEN "T:R" ELSE "T:C"

NewResource(id, urn, t, inputs, outputs) ==
    [id |-> id, urn |-> urn, t |-> t, inputs |-> inputs, outputs |-> outputs]

\* Lines 154-164; the nil outputs become an empty map (lines 140-142).
NewObjectResource(c, obj) ==
    IF ~IsResourceType(heap[obj].kind) THEN Fatal("notresource")
    ELSE LET props == cloneResource(c, obj)
         IN  IF props.st = "fatal" THEN props
             ELSE Ok(NewResource("", "", TypeToken(obj), props.v, NoProps))

(***************************************************************************)
(* The object graphs the cloner is run on.  R holds V1, V2 and a           *)
(* reference to C; V1 is a property map over V2, V3 and C or an array over *)
(* V2, V3 and the function F; V2 is any scalar, function, unrecognised or  *)
(* computed value, or a container over V3 and C.  No container is          *)
(* reachable from itself in these graphs.                                  *)
(***************************************************************************)
URNOf(obj) == IF obj = "R" THEN "r-1" ELSE "c-1"

Contexts == {[o \in S |-> URNOf(o)] : S \in SUBSET Resources}

TopObjs ==
    {PropsObj(kd, [x |-> v]) : kd \in ObjectKinds, v \in {"C", "V2"}}
        \cup {PropsObj(kd, [x |-> v, y |-> "V3"]) : kd \in ObjectKinds, v \in {"C", "V2"}}
        \cup {ArrayObj(es) : es \in SeqsUpTo({"V2", "V3", "F"}, MaxArrayLen)}

MidObjs ==
    LeafObjs \cup ComputedObjs
        \cup {PropsObj("object", [z |-> "V3"]), PropsObj("map", [z |-> "V3"]),
              ArrayObj(<<"V3">>), ArrayObj(<<"V3", "C">>)}

LowObjs ==
    {NumberObj(3), Leaf("function"),
     ComputedObj("string", FALSE, <<"R">>), ComputedObj("number", TRUE, <<"C">>)}

ResourceR == PropsObj("resource", [a |-> "V1", b |-> "V2", c |-> "C"])
ResourceC == PropsObj("resource", [a |-> "R"])

HeapOf(v1, v2, v3) ==
    [o \in Objs |->
        CASE o = "R" -> ResourceR
          [] o = "C" -> ResourceC
          [] o = "V1" -> v1
          [] o = "V2" -> v2
          [] o = "V3" -> v3
          [] OTHER -> Leaf("function")]

Heaps == {HeapOf(v1, v2, v3) : v1 \in TopObjs, v2 \in MidObjs, v3 \in LowObjs}

(***************************************************************************)
(* SpecClone: NewObjectResource applied to an object of any such graph.    *)
(***************************************************************************)
InitClone ==
    /\ heap \in Heaps
    /\ ctx \in Contexts
    /\ made = NoCall
    /\ stack = <<>>
    /\ walk = NoCall
    /\ rs = <<>>
    /\ maps = <<>>
    /\ last = NoCall
    /\ called = {}
    /\ nops = 0

DoNewObjectResource ==
    /\ made = NoCall
    /\ \E obj \in {"R", "C", "V1"} :
          made' = [st |-> "made", obj |-> obj, res |-> NewObjectResource(ctx, obj)]
    /\ UNCHANGED <<heap, ctx, walkVars, resVars>>

NextClone == DoNewObjectResource

SpecClone == InitClone /\ [][NextClone]_vars

(***************************************************************************)
(* What the properties below read off a finished NewObjectResource call.   *)
(***************************************************************************)
Cloned == made.st = "made" /\ IsResourceType(heap[made.obj].kind)
ClonedOk == Cloned /\ made.res.st = "ok"

IsFunction(obj) == heap[obj].kind = "function"
Kept(elems) == SelectSeq(elems, LAMBDA e : ~IsFunction(e))

\* The values the walk from a resource visits: its properties, and the
\* properties and elements of every object literal, dynamic, map, class
\* instance and array among them.  arr tells whether an array lies between
\* the resource and the value.
RECURSIVE Visited(_, _)
Children(obj) ==
    LET o == heap[obj]
    IN  IF o.kind = "array" THEN {o.elems[i] : i \in DOMAIN o.elems}
        ELSE IF o.kind \in ObjectKinds THEN {o.props[k] : k \in DOMAIN o.props}
        ELSE {}
Visited(obj, arr) ==
    {[obj |-> obj, arr |-> arr]}
        \cup UNION {Visited(ch, arr \/ heap[obj].kind = "array") : ch \in Children(obj)}
VisitedFrom(root) ==
    UNION {Visited(heap[root].props[k], FALSE) : k \in DOMAIN heap[root].props}

\* Each visited value beside the property value made of it.
RECURSIVE Pairs(_, _, _)
Pairs(obj, pv, arr) ==
    LET o == heap[obj]
    IN  {[obj |-> obj, pv |-> pv, arr |-> arr]} \cup
        (IF o.kind \in ObjectKinds /\ pv.k = "Object"
         THEN UNION {Pairs(o.props[k], pv.props[k], arr) :
                        k \in DOMAIN o.props \cap DOMAIN pv.props}
         ELSE IF o.kind = "array" /\ pv.k = "Array" /\ Len(Kept(o.elems)) = Len(pv.elems)
         THEN UNION {Pairs(Kept(o.elems)[i], pv.elems[i], TRUE) : i \in DOMAIN pv.elems}
         ELSE {})
PairsFrom(root, inputs) ==
    UNION {Pairs(heap[root].props[k], inputs[k], FALSE) :
              k \in DOMAIN heap[root].props \cap DOMAIN inputs}
MadePairs == PairsFrom(made.obj, made.res.v.inputs)

\* The variant a value of each declared type is serialized as.
VariantOf(kind) ==
    CASE kind = "null" -> {"Null"}
      [] kind = "bool" -> {"Bool"}
      [] kind = "number" -> {"Number"}
      [] kind = "string" -> {"String"}
      [] kind = "array" -> {"Array"}
      [] kind \in ObjectKinds -> {"Object"}
      [] kind = "resource" -> {"Resource"}
      [] kind = "computed" -> {"Computed", "Output"}
      [] OTHER -> {}

\* The zero value of each eventual type.
ZeroOf(future) ==
    CASE future = "null" -> [k |-> "Null"]
      [] future = "bool" -> [k |-> "Bool", b |-> FALSE]
      [] future = "number" -> [k |-> "Number", n |-> 0]
      [] future = "string" -> [k |-> "String", s |-> ""]
      [] future = "array" -> [k |-> "Array", elems |-> <<>>]
      [] OTHER -> [k |-> "Object", props |-> NoProps]

\* A computed value is an output of the resource being cloned.
IsOutputOf(obj, root) ==
    /\ ~heap[obj].expr
    /\ Len(heap[obj].sources) = 1
    /\ heap[obj].sources[1] = root

OtherSources(obj, root) ==
    {heap[obj].sources[i] : i \in DOMAIN heap[obj].sources} \ {root}

\* C2: every value of a resource type is serialized as the reference holding
\* its URN from the context and is never expanded, and the clone is fatal when
\* a visited resource has no entry in the context.
C2_ResourceReference ==
    /\ ClonedOk =>
          \A p \in MadePairs :
             (heap[p.obj].kind = "resource" \/ p.pv.k = "Resource") =>
                /\ p.obj \in DOMAIN ctx
                /\ p.pv = [k |-> "Resource", urn |-> ctx[p.obj]]
    /\ Cloned =>
          ((\E v \in VisitedFrom(made.obj) :
               heap[v.obj].kind = "resource" /\ v.obj \notin DOMAIN ctx)
              => made.res.st = "fatal")

C2_Witness ==
    /\ ClonedOk
    /\ made.obj = "R"
    /\ heap["V1"].kind = "class"
    /\ heap["V1"].props = [x |-> "C"]
    /\ made.res.v.inputs["a"] = [k |-> "Object", props |-> [x |-> [k |-> "Resource", urn |-> "c-1"]]]
    /\ made.res.v.inputs["c"] = [k |-> "Resource", urn |-> "c-1"]

\* The computed values that are properties of the resource being cloned: the
\* pairs with no array on the way.
ComputedProperties ==
    {p \in MadePairs : heap[p.obj].kind = "computed" /\ ~p.arr}

\* C3: a computed property of the cloned resource is an Output exactly when it
\* is no expression and its one source is that resource, and a Computed in
\* every other case; an Output holds the zero value of its eventual type and
\* no dependency set.
C3_OutputClassification ==
    ClonedOk =>
        \A p \in ComputedProperties :
            /\ p.pv.k \in {"Output", "Computed"}
            /\ p.pv.k = "Output" <=> IsOutputOf(p.obj, made.obj)
            /\ p.pv.k = "Computed" <=> ~IsOutputOf(p.obj, made.obj)
            /\ p.pv.k = "Output" =>
                  /\ DOMAIN p.pv = {"k", "elem"}
                  /\ p.pv.elem = ZeroOf(heap[p.obj].future)

C3_Witness ==
    /\ ClonedOk
    /\ made.obj = "R"
    /\ heap["V2"] = ComputedObj("string", FALSE, <<"R">>)
    /\ made.res.v.inputs["b"] = [k |-> "Output", elem |-> [k |-> "String", s |-> ""]]

\* C4: a Computed property of the cloned resource depends on exactly the URNs
\* of its sources other than that resource, and the clone is fatal when one
\* of those sources has no entry in the context.
C4_ComputedDependsOn ==
    /\ ClonedOk =>
          \A p \in ComputedProperties :
             p.pv.k = "Computed" =>
                /\ OtherSources(p.obj, made.obj) \subseteq DOMAIN ctx
                /\ {p.pv.urns[i] : i \in DOMAIN p.pv.urns}
                      = {ctx[s] : s \in OtherSources(p.obj, made.obj)}
                /\ \A i \in DOMAIN p.pv.urns : p.pv.urns[i] # URNOf(made.obj)
                /\ p.pv.elem = ZeroOf(heap[p.obj].future)
    /\ Cloned =>
          ((\E v \in VisitedFrom(made.obj) :
               /\ ~v.arr
               /\ heap[v.obj].kind = "computed"
               /\ ~IsOutputOf(v.obj, made.obj)
               /\ ~(OtherSources(v.obj, made.obj) \subseteq DOMAIN ctx))
              => made.res.st = "fatal")

C4_Witness ==
    /\ ClonedOk
    /\ made.obj = "R"
    /\ heap["V2"] = ComputedObj("string", FALSE, <<"C", "R">>)
    /\ made.res.v.inputs["b"] =
          [k |-> "Computed", elem |-> [k |-> "String", s |-> ""], urns |-> <<"c-1">>]

\* The property maps cloned: the resource's own, and that of every object
\* literal, dynamic, map and class instance visited.
MapPairs ==
    {[props |-> heap[made.obj].props, pm |-> made.res.v.inputs]}
        \cup {[props |-> heap[p.obj].props, pm |-> p.pv.props] :
                 p \in {q \in MadePairs : heap[q.obj].kind \in ObjectKinds}}

\* C5: a cloned property map holds exactly the keys whose values are no
\* functions, each with the variant of its value's declared type.
C5_PropertyMapKeys ==
    ClonedOk =>
        /\ \A p \in MadePairs : heap[p.obj].kind \in ObjectKinds => p.pv.k = "Object"
        /\ \A m \in MapPairs :
              /\ DOMAIN m.pm = {k \in DOMAIN m.props : ~IsFunction(m.props[k])}
              /\ \A k \in DOMAIN m.pm : m.pm[k].k \in VariantOf(heap[m.props[k]].kind)
              /\ \A k \in DOMAIN m.pm :
                    /\ m.pm[k].k = "Bool" => m.pm[k].b = heap[m.props[k]].b
                    /\ m.pm[k].k = "Number" => m.pm[k].n = heap[m.props[k]].n
                    /\ m.pm[k].k = "String" => m.pm[k].s = heap[m.props[k]].s

C5_Witness ==
    /\ ClonedOk
    /\ made.obj = "R"
    /\ IsFunction("V2")
    /\ IsFunction("V3")
    /\ heap["V1"].kind = "map"
    /\ heap["V1"].props = [x |-> "C", y |-> "V3"]
    /\ DOMAIN made.res.v.inputs = {"a", "c"}
    /\ DOMAIN made.res.v.inputs["a"].props = {"x"}

\* The arrays cloned, each beside the Array made of it.
ArrayPairs == {p \in MadePairs : heap[p.obj].kind = "array"}

\* C6: a cloned array holds one element for each element of the source that
\* is no function, in the source's order, and nothing in place of a function.
C6_ArrayDropsFunctions ==
    ClonedOk =>
        \A p \in ArrayPairs :
            LET kept == Kept(heap[p.obj].elems)
            IN  /\ p.pv.k = "Array"
                /\ Len(p.pv.elems) = Len(kept)
                /\ \A i \in DOMAIN p.pv.elems :
                      /\ p.pv.elems[i].k \in VariantOf(heap[kept[i]].kind)
                      /\ p.pv.elems[i].k = "Bool" => p.pv.elems[i].b = heap[kept[i]].b
                      /\ p.pv.elems[i].k = "Number" => p.pv.elems[i].n = heap[kept[i]].n
                      /\ p.pv.elems[i].k = "String" => p.pv.elems[i].s = heap[kept[i]].s

C6_Witness ==
    /\ ClonedOk
    /\ made.obj = "R"
    /\ heap["V1"] = ArrayObj(<<"V2", "F", "V3">>)
    /\ heap["V2"] = NumberObj(1)
    /\ heap["V3"] = NumberObj(3)
    /\ made.res.v.inputs["a"] =
          [k |-> "Array", elems |-> <<[k |-> "Number", n |-> 1], [k |-> "Number", n |-> 3]>>]

\* C8: the owner is the cloned resource at every depth, under arrays too: a
\* computed value anywhere is an Output exactly when it is no expression and
\* its one source is that resource, and the resource's own URN is in no
\* dependency set.
C8_OwnerAtEveryDepth ==
    ClonedOk =>
        \A p \in {q \in MadePairs : heap[q.obj].kind = "computed"} :
            /\ p.pv.k = "Output" <=> IsOutputOf(p.obj, made.obj)
            /\ p.pv.k = "Computed" =>
                  \A i \in DOMAIN p.pv.urns : p.pv.urns[i] # URNOf(made.obj)

\* The eventual types C9 names.
NamedFutures ==
    {"null", "bool", "number", "string", "object", "dynamic", "array", "map", "class"}

\* C9: when every value visited is of a recognised type and every computed
\* value visited has one of the named eventual types, the clone never fails
\* with the unrecognised-type error, and every computed value holds the zero
\* value of its eventual type.
C9_PlaceholderForEveryType ==
    (/\ Cloned
     /\ \A v \in VisitedFrom(made.obj) :
           /\ heap[v.obj].kind # "pointer"
           /\ heap[v.obj].kind = "computed" => heap[v.obj].future \in NamedFutures)
        => /\ made.res # Fatal("unrecognized")
           /\ made.res.st = "ok" =>
                 \A p \in {q \in MadePairs : heap[q.obj].kind = "computed"} :
                     p.pv.elem = ZeroOf(heap[p.obj].future)

(***************************************************************************)
(* The resource record and its operations.  A PropertyMap is a Go map: a   *)
(* reference into maps.  An object value holds the reference of its map,   *)
(* so two property maps that bind the same object value share it.          *)
(***************************************************************************)
IDs == {"", "i1", "i2"}
URNs == {"", "u1", "u2"}
Keys == {"a", "n"}
NestedKeys == {"x"}
Number1 == [k |-> "Number", n |-> 1]
Number2 == [k |-> "Number", n |-> 2]
ObjectAt(ref) == [k |-> "Object", ref |-> ref]

HasID(r) == r.id # ""
HasURN(r) == r.urn # ""

\* SetID without the requirement that the id is blank.
SetIDUnchecked(r, id) == Ok([r EXCEPT !.id = id])

\* Lines 106-110: the requirement fails, or the id is assigned.
SetID(r, id) == IF HasID(r) THEN Fatal("require") ELSE Ok([r EXCEPT !.id = id])

\* Lines 113-116.
SetURN(r, m) == IF HasURN(r) THEN Fatal("require") ELSE Ok([r EXCEPT !.urn = m])

\* PropertyMap.ShallowClone: a new map with the bindings of the map at ref;
\* its reference is the next free one.
PropertyMapShallowClone(ms, ref) == Append(ms, ms[ref])

\* PropertyMap.ShallowCloneInto: every binding of the map at src is put into
\* the map at dst.
ShallowCloneInto(ms, src, dst) ==
    [ms EXCEPT ![dst] = [k \in DOMAIN ms[src] \cup DOMAIN ms[dst] |->
                            IF k \in DOMAIN ms[src] THEN ms[src][k] ELSE ms[dst][k]]]

\* ShallowClone that copies the map references instead of the maps.
ShallowCloneSharing(ms, r) == [r |-> r, maps |-> ms]

\* Lines 125-133: the clone, and the maps with the clone's two new maps.
ShallowClone(ms, r) ==
    LET ms1 == PropertyMapShallowClone(ms, r.inputs)
        ms2 == PropertyMapShallowClone(ms1, r.outputs)
    IN  [r |-> [id |-> r.id, urn |-> r.urn, t |-> r.t,
                inputs |-> Len(ms1), outputs |-> Len(ms2)],
         maps |-> ms2]

\* Lines 119-121.
SetOutputsFrom(ms, r, src) == ShallowCloneInto(ms, src.outputs, r.outputs)

\* Lines 102-103: the map a caller gets from Inputs() or Outputs().
MapOf(r, which) == IF which = "inputs" THEN r.inputs ELSE r.outputs

\* A resource as NewObjectResource leaves it (line 163): blank id and URN,
\* the cloned inputs, here a number and an object literal, and no outputs.
InitRes ==
    /\ maps = <<[a |-> Number1, n |-> ObjectAt(3)], NoProps, [x |-> Number1]>>
    /\ rs = <<NewResource("", "", "T:R", 1, 2)>>
    /\ last = NoCall
    /\ called = {}
    /\ nops = 0
    /\ heap = [o \in {} |-> 0]
    /\ ctx = [o \in {} |-> ""]
    /\ made = NoCall
    /\ stack = <<>>
    /\ walk = NoCall

Calls(i, field, arg) ==
    {<<i, field, FALSE>>} \cup (IF arg # "" THEN {<<i, field, TRUE>>} ELSE {})

DoSetID ==
    /\ nops < MaxOps
    /\ \E i \in DOMAIN rs, id \in IDs :
          LET out == SetID(rs[i], id)
              new == IF out.st = "ok" THEN out.v ELSE rs[i]
          IN  /\ rs' = [rs EXCEPT ![i] = new]
              /\ last' = [op |-> "SetID", r |-> i, arg |-> id, pre |-> rs[i].id,
                          post |-> new.id, ok |-> out.st = "ok",
                          later |-> <<i, "id", FALSE>> \in called,
                          assigned |-> <<i, "id", TRUE>> \in called]
              /\ called' = called \cup Calls(i, "id", id)
    /\ nops' = nops + 1
    /\ UNCHANGED <<maps, cloneVars, walkVars>>

DoSetURN ==
    /\ nops < MaxOps
    /\ \E i \in DOMAIN rs, m \in URNs :
          LET out == SetURN(rs[i], m)
              new == IF out.st = "ok" THEN out.v ELSE rs[i]
          IN  /\ rs' = [rs EXCEPT ![i] = new]
              /\ last' = [op |-> "SetURN", r |-> i, arg |-> m, pre |-> rs[i].urn,
                          post |-> new.urn, ok |-> out.st = "ok",
                          later |-> <<i, "urn", FALSE>> \in called,
                          assigned |-> <<i, "urn", TRUE>> \in called]
              /\ called' = called \cup Calls(i, "urn", m)
    /\ nops' = nops + 1
    /\ UNCHANGED <<maps, cloneVars, walkVars>>

DoShallowClone ==
    /\ nops < MaxOps
    /\ Len(rs) < MaxResources
    /\ \E i \in DOMAIN rs :
          LET out == ShallowClone(maps, rs[i])
          IN  /\ rs' = Append(rs, out.r)
              /\ maps' = out.maps
              /\ last' = [op |-> "ShallowClone", r |-> Len(rs) + 1, of |-> i]
    /\ nops' = nops + 1
    /\ UNCHANGED <<called, cloneVars, walkVars>>

DoSetOutputsFrom ==
    /\ nops < MaxOps
    /\ \E i \in DOMAIN rs, j \in DOMAIN rs :
          /\ maps' = SetOutputsFrom(maps, rs[i], rs[j])
          /\ last' = [op |-> "SetOutputsFrom", r |-> i, src |-> j]
    /\ nops' = nops + 1
    /\ UNCHANGED <<rs, called, cloneVars, walkVars>>

\* A caller sets a key of the map it got from Inputs() or Outputs().
DoPut ==
    /\ nops < MaxOps
    /\ \E i \in DOMAIN rs, which \in {"inputs", "outputs"}, key \in Keys :
          LET ref == MapOf(rs[i], which)
          IN  /\ maps' = [maps EXCEPT ![ref] =
                            [k \in DOMAIN maps[ref] \cup {key} |->
                                IF k = key THEN Number2 ELSE maps[ref][k]]]
              /\ last' = [op |-> "Put", r |-> i, which |-> which, key |-> key]
    /\ nops' = nops + 1
    /\ UNCHANGED <<rs, called, cloneVars, walkVars>>

\* A caller deletes a key of the map it got from Inputs() or Outputs().
DoDelete ==
    /\ nops < MaxOps
    /\ \E i \in DOMAIN rs, which \in {"inputs", "outputs"} :
          LET ref == MapOf(rs[i], which)
          IN  \E key \in DOMAIN maps[ref] :
                 /\ maps' = [maps EXCEPT ![ref] =
                               [k \in DOMAIN maps[ref] \ {key} |-> maps[ref][k]]]
                 /\ last' = [op |-> "Delete", r |-> i, which |-> which, key |-> key]
    /\ nops' = nops + 1
    /\ UNCHANGED <<rs, called, cloneVars, walkVars>>

\* A caller sets a key inside an object value it reached through a key of
\* the map it got from Inputs() or Outputs().
DoPutNested ==
    /\ nops < MaxOps
    /\ \E i \in DOMAIN rs, which \in {"inputs", "outputs"}, key2 \in NestedKeys :
          LET ref == MapOf(rs[i], which)
          IN  \E key \in DOMAIN maps[ref] :
                 /\ maps[ref][key].k = "Object"
                 /\ LET in == maps[ref][key].ref
                    IN  maps' = [maps EXCEPT ![in] =
                                  [k \in DOMAIN maps[in] \cup {key2} |->
                                      IF k = key2 THEN Number2 ELSE maps[in][k]]]
                 /\ last' = [op |-> "PutNested", r |-> i, which |-> which,
                             key |-> key, key2 |-> key2]
    /\ nops' = nops + 1
    /\ UNCHANGED <<rs, called, cloneVars, walkVars>>

NextRes ==
    \/ DoSetID
    \/ DoSetURN
    \/ DoShallowClone
    \/ DoSetOutputsFrom
    \/ DoPut
    \/ DoDelete
    \/ DoPutNested

SpecRes == InitRes /\ [][NextRes]_vars

IsCall == nops > 0 /\ last.op \in {"SetID", "SetURN"}
FieldOf(r, op) == IF op = "SetID" THEN r.id ELSE r.urn

\* C1 as stated: on the resource created with blank id and URN, exactly the
\* first SetID (resp. SetURN) call succeeds and assigns its argument, and every
\* later call fails and leaves the field unchanged, whatever the arguments.
C1_OnlyFirstCallSucceeds ==
    (IsCall /\ last.r = 1) =>
        /\ last.ok <=> ~last.later
        /\ last.ok => last.post = last.arg
        /\ ~last.ok => last.post = last.pre

\* C1 as amended: a call succeeds exactly when the field is still blank, and
\* then assigns its argument; a failing call leaves the field unchanged; on the
\* resource created blank, the calls that succeed are those made before any
\* call with a non-blank argument, so once a non-blank value was assigned
\* every later call fails.
C1_AssignedOnce ==
    IsCall =>
        /\ last.ok <=> last.pre = ""
        /\ last.ok => last.post = last.arg
        /\ ~last.ok => last.post = last.pre
        /\ FieldOf(rs[last.r], last.op) = last.post
        /\ last.r = 1 => (last.ok <=> ~last.assigned)

C1_Witness ==
    /\ IsCall
    /\ last.op = "SetID"
    /\ last.r = 1
    /\ last.later
    /\ last.assigned
    /\ last.arg = "i2"
    /\ ~last.ok
    /\ rs[1].id = "i1"

\* What a reader of resource i sees without following an object value: the
\* scalar fields and the bindings of the two maps.
TopIn(rx, ms, i) ==
    [id |-> rx[i].id, urn |-> rx[i].urn, t |-> rx[i].t,
     inputs |-> ms[rx[i].inputs], outputs |-> ms[rx[i].outputs]]
Top(i) == TopIn(rs, maps, i)

TopLevelOps == {"SetID", "SetURN", "Put", "Delete", "SetOutputsFrom"}

\* C7: an operation on a clone that sets, overwrites or removes a top-level
\* key of its inputs or outputs, or assigns its id or URN, leaves the resource
\* it was cloned from as it was; a key set inside an object value that both
\* bind is seen through the original.
C7_ShallowCloneFrame ==
    [][nops' # nops =>
        /\ last'.op = "ShallowClone" =>
              /\ \A i \in DOMAIN rs : Top(i)' = Top(i)
              /\ TopIn(rs', maps', last'.r) = Top(last'.of)
              /\ rs'[last'.r].inputs \notin {rs[i].inputs : i \in DOMAIN rs}
              /\ rs'[last'.r].outputs \notin {rs[i].outputs : i \in DOMAIN rs}
        /\ last'.op \in TopLevelOps =>
              \A i \in DOMAIN rs \ {last'.r} : Top(i)' = Top(i)
        /\ last'.op = "PutNested" =>
              \A i \in DOMAIN rs :
                 LET mine == maps[MapOf(rs[i], last'.which)]
                     theirs == maps[MapOf(rs[last'.r], last'.which)]
                 IN  (last'.key \in DOMAIN mine /\ mine[last'.key] = theirs[last'.key])
                        => /\ Top(i)' = Top(i)
                           /\ maps'[mine[last'.key].ref][last'.key2] = Number2
    ]_vars

C7_Witness ==
    /\ Len(rs) = 2
    /\ nops > 0
    /\ last.op = "PutNested"
    /\ last.r = 2
    /\ DOMAIN maps[rs[2].inputs] = {"n"}
    /\ maps[rs[1].inputs] = [a |-> Number1, n |-> ObjectAt(3)]
    /\ maps[3] = [x |-> Number2]

(***************************************************************************)
(* SpecWalk: the recursion of the cloner, one call or return at a step,    *)
(* on graphs in which a container may hold itself.  A frame of the stack   *)
(* is an active call: cloneObject on the resource at the bottom,           *)
(* cloneObjectProperty above it; i is the next property or element of the  *)
(* frame's loop.                                                           *)
(***************************************************************************)
WalkTopObjs ==
    {PropsObj(kd, [x |-> v]) : kd \in {"object", "map", "class"}, v \in Values}
        \cup {ArrayObj(<<v>>) : v \in {"V1", "V2"}}
        \cup {ArrayObj(<<v, "V3">>) : v \in {"V1", "V2"}}

WalkMidObjs ==
    {NumberObj(1), Leaf("function"), Leaf("pointer"), ComputedObj("string", FALSE, <<"C">>)}
        \cup {PropsObj("object", [z |-> v]) : v \in Values}
        \cup {ArrayObj(<<v>>) : v \in Values}

WalkLowObjs == {NumberObj(3), Leaf("function")}

WalkHeaps ==
    {HeapOf(v1, v2, v3) : v1 \in WalkTopObjs, v2 \in WalkMidObjs, v3 \in WalkLowObjs}

Frame(fn, resobj, obj) == [fn |-> fn, resobj |-> resobj, obj |-> obj, i |-> 1]

InitWalk ==
    /\ heap \in WalkHeaps
    /\ ctx \in Contexts
    /\ \E root \in Resources :
          /\ stack = <<Frame("cloneObject", root, root)>>
          /\ walk = [st |-> "run", root |-> root]
    /\ made = NoCall
    /\ rs = <<>>
    /\ maps = <<>>
    /\ last = NoCall
    /\ called = {}
    /\ nops = 0

TopFrame == stack[Len(stack)]

\* The frame loops over properties or elements (lines 176-177, 204, 213,
\* 221-222, 226) instead of returning at once.
Loops(f) ==
    \/ f.fn = "cloneObject"
    \/ heap[f.obj].kind \in ObjectKinds \cup {"array"}

\* The values the frame's loop clones, in the loop's order.
LoopOver(f) ==
    LET o == heap[f.obj]
    IN  IF f.fn = "cloneObjectProperty" /\ o.kind = "array" THEN o.elems
        ELSE [j \in 1..Len(Stable(o.props)) |-> o.props[Stable(o.props)[j]]]

\* The owner the frame hands to the calls of its loop.
OwnerIn(f) ==
    IF f.fn = "cloneObjectProperty" /\ heap[f.obj].kind = "array"
    THEN elementOwner(f.resobj, f.obj)
    ELSE f.resobj

\* Lines 214 and 292: the loop calls cloneObjectProperty on its next value.
WalkCall ==
    /\ walk.st = "run"
    /\ Len(stack) < MaxDepth
    /\ Loops(TopFrame)
    /\ TopFrame.i <= Len(LoopOver(TopFrame))
    /\ stack' = Append([stack EXCEPT ![Len(stack)].i = TopFrame.i + 1],
                       Frame("cloneObjectProperty", OwnerIn(TopFrame),
                             LoopOver(TopFrame)[TopFrame.i]))
    /\ UNCHANGED <<walk, cloneVars, resVars>>

\* A call returns: its loop is over, or it is a call that makes none and
\* does not fail.
WalkReturn ==
    /\ walk.st = "run"
    /\ IF Loops(TopFrame) THEN TopFrame.i > Len(LoopOver(TopFrame))
       ELSE cloneObjectProperty(ctx, TopFrame.resobj, TopFrame.obj).st # "fatal"
    /\ stack' = SubSeq(stack, 1, Len(stack) - 1)
    /\ walk' = IF Len(stack) = 1 THEN [walk EXCEPT !.st = "done"] ELSE walk
    /\ UNCHANGED <<cloneVars, resVars>>

\* An assertion fails (lines 189, 250, 283) and unwinds every call.
WalkFatal ==
    /\ walk.st = "run"
    /\ ~Loops(TopFrame)
    /\ cloneObjectProperty(ctx, TopFrame.resobj, TopFrame.obj).st = "fatal"
    /\ stack' = <<>>
    /\ walk' = [walk EXCEPT !.st = "fatal"]
    /\ UNCHANGED <<cloneVars, resVars>>

NextWalk ==
    \/ WalkCall
    \/ WalkReturn
    \/ WalkFatal

SpecWalk == InitWalk /\ [][NextWalk]_vars

\* The walk ends as cloneResource does.
WalkAgreesWithClone ==
    /\ walk.st = "done" => cloneResource(ctx, walk.root).st = "ok"
    /\ walk.st = "fatal" => cloneResource(ctx, walk.root).st = "fatal"

\* C10: cloning a resource terminates on every finite graph, also when a
\* nested value is reachable from itself.  cloneObjectProperty is
\* deterministic and neither the graph nor the context changes, so a call
\* that is active inside a call with the same owner and object repeats
\* itself without end: termination says that no such call exists.
C10_CloneTerminates ==
    \A i \in DOMAIN stack, j \in DOMAIN stack :
        (i < j /\ stack[i].fn = stack[j].fn) =>
            <<stack[i].resobj, stack[i].obj>> # <<stack[j].resobj, stack[j].obj>>

====
